---- MODULE Spec2Model ----
(***************************************************************************)
(* Model of notifier_playwright.py: the scheduled job that loads the       *)
(* day-scoped snapshot from a gist, fetches the "Today CPA" report,        *)
(* compares it against the snapshot, sends alerts to Telegram and saves    *)
(* the new snapshot.                                                       *)
(*                                                                         *)
(* One run of main() is the sequence of steps                              *)
(*   Load (lines 425-428) -> Fetch (430) -> NoData | Baseline | Compare    *)
(*   (433-503) -> Save (442 / 505).                                        *)
(* Counters are integers; revenues are integers too (cents).               *)
(*                                                                         *)
(* fetch_rows() is modelled twice: as one step that returns any list with  *)
(* one row per key (Fetch), and in detail (Respond, OnResponse,            *)
(* FetchReturn) with parse_report_from_json and aggregate_rows_max as      *)
(* operators. Spec is the job of one runner; the other specifications      *)
(* restrict its inputs, keep a history, or run two runners.                *)
(***************************************************************************)
EXTENDS Integers, Sequences, FiniteSets, TLC

\* ------------------------------------------------------------- bounds
\* conversions and sales of a fetched row range over 0..MaxCount
MaxCount == 2
\* calendar days are 1..MaxDay
MaxDay == 2

\* EPS = 0.009 (line 30), in thousandths
EPS_MILLI == 9
\* revenue of one sale in the sampled reports, in cents
RevPerSale == 5

\* each revenue field of a row of the reports with two revenues ranges over 0..MaxRev
MaxRev == 2
\* the "rows" list of a response holds at most MaxRecords records
MaxRecords == 2
\* the list handed to aggregate_rows_max holds at most MaxCaptured rows
MaxCaptured == 3

\* the dimension tuples ("campaign|country|external|creative") of the sampled reports
Keys == {"A", "B"}
\* the processes that may run main(); the job is scheduled as a single runner
Runners == {1, 2}

VARIABLES
    clock,   \* the current day in the configured timezone
    gist,    \* the state file in the gist: [present, date, rows]
    pc,      \* where each run of main() stands
    today,   \* main's local `today`
    state,   \* main's local `state` (prev_date = state.date, prev_rows = state.rows)
    loaded,  \* which return of load_state gave `state`: "stored" (line 67), "default" (line 70)
    rows,    \* main's local `rows`, the result of fetch_rows()
    sent,    \* the texts this run handed to tg_send, in order
    snap,    \* the argument of this run's save_state call, once computed
    err,     \* the exception that ended the run, "" when none
    peak,    \* history: per key, the highest count baselined or alerted on peak.day
    nodata,  \* history: the day of the latest "no data" notification, 0 when none
    prev,    \* history: what the run before the current one fetched and sent
    order,   \* history: the runners whose fetch and whose save came last, 0 when none
    acct,    \* history: per key, the day's baseline value and the sum of the alerted deltas
    payload,     \* data["rows"] of the response on_response handled last
    parsed,      \* what parse_report_from_json did with it: [status, rows]
    captured,    \* fetch_rows' local `captured`
    best_score,  \* fetch_rows' local `best_score`, in hundredths
    seen         \* history: per key, the highest counts of all payloads parsed in this fetch

vars == <<clock, gist, pc, today, state, loaded, rows, sent, snap, err,
          peak, nodata, prev, order, acct, payload, parsed, captured, best_score, seen>>
hist == <<peak, nodata, prev, order, acct>>
fetchv == <<payload, parsed, captured, best_score, seen>>

\* ------------------------------------------------------------- values
EmptyRows == [k \in {} |-> 0]

NoSnapshot == [present |-> FALSE, date |-> 0, rows |-> EmptyRows]

Row(k, conv, sales, dep, sale) ==
    [k |-> k, clicks |-> conv, uniq |-> conv, conversions |-> conv, sales |-> sales,
     deposit_revenue |-> dep, sale_revenue |-> sale]

\* the rows a report can hold for key k: a sale is one of the conversions and
\* brings its revenue as deposit_revenue
ReportRows(k) ==
    {Row(k, cs[1], cs[2], RevPerSale * cs[2], 0) :
        cs \in {x \in (0..MaxCount) \X (0..MaxCount) : x[2] <= x[1]}}

AllRows == UNION {ReportRows(k) : k \in Keys}

\* what fetch_rows() can return (line 420): a list with at most one row per key,
\* in any order; the empty list when nothing was captured
FetchedLists ==
    UNION {{s \in [1..n -> AllRows] : \A i, j \in 1..n : i # j => s[i].k # s[j].k} :
              n \in 0..Cardinality(Keys)}

\* the fetched lists of at most one row
ShortLists == {s \in FetchedLists : Len(s) <= 1}

\* reports of one key in which both revenue fields are filled, each on its own
RevRows ==
    {Row("A", s, s, d, sr) : s \in 0..MaxCount, d \in 0..MaxRev, sr \in 0..MaxRev}

\* reports of the one key A that carry its conversions only
RaceLists == {<<Row("A", c, 0, 0, 0)>> : c \in 0..MaxCount}

RevLists == {<<>>} \cup {<<r>> : r \in RevRows}

NoMessages == <<>>

\* ------------------------------------------------------------- helpers
Max(a, b) == IF a >= b THEN a ELSE b

KeysOf(rs) == {rs[i].k : i \in DOMAIN rs}

\* kyiv_today_str(): the calendar day of the configured timezone
kyiv_today_str == clock

\* ------------------------------------------------------------- parsing
\* JSON values of a metric: a number (in halves: 3 is 1.5), or a value float()
\* refuses (a text that is no number, a list, an object)
RawNum(h) == [num |-> TRUE, halves |-> h]
NotNum == [num |-> FALSE, halves |-> 0]

\* JSON values of a revenue: a number (in cents), or a value float() refuses
RawMoney(c) == [num |-> TRUE, cents |-> c]

\* as_int (lines 49-53): int(float(v or 0)), 0 when that raises
as_int(v) == IF v.num THEN v.halves \div 2 ELSE 0

\* as_float (lines 43-47): float(v or 0), 0.0 when that raises
as_float(v) == IF v.num THEN v.cents ELSE 0

\* a record of data["rows"]: a JSON object with the dimension at the top level
\* and / or under "dimensions", or a JSON value that is no object (a list, a text)
RawRecord(flat, nested, conv, sales) ==
    [mapping |-> TRUE, campaign |-> flat, dimensions |-> [campaign |-> nested],
     clicks |-> conv, campaign_unique_clicks |-> conv, conversions |-> conv,
     sales |-> RawNum(2 * sales), deposit_revenue |-> RawMoney(RevPerSale * sales),
     sale_revenue |-> RawMoney(0)]

NotAMapping ==
    [mapping |-> FALSE, campaign |-> "", dimensions |-> [campaign |-> ""],
     clicks |-> NotNum, campaign_unique_clicks |-> NotNum, conversions |-> NotNum,
     sales |-> NotNum, deposit_revenue |-> RawMoney(0), sale_revenue |-> RawMoney(0)]

\* g (lines 109-110) for the one dimension the sampled records carry
g(r) ==
    IF r.campaign # "" THEN r.campaign
    ELSE IF r.dimensions.campaign # "" THEN r.dimensions.campaign
    ELSE ""

\* the row appended at lines 120-135
ParsedRow(r) ==
    [k |-> g(r), clicks |-> as_int(r.clicks), uniq |-> as_int(r.campaign_unique_clicks),
     conversions |-> as_int(r.conversions), sales |-> as_int(r.sales),
     deposit_revenue |-> as_float(r.deposit_revenue),
     sale_revenue |-> as_float(r.sale_revenue)]

\* parse_report_from_json, lines 105-135: the loop over the records; r.get of a
\* record that is no object raises AttributeError, which nothing catches
RECURSIVE parse_loop(_, _)
parse_loop(out, recs) ==
    IF recs = <<>> THEN [status |-> "returned", rows |-> out]
    ELSE LET r == Head(recs)
         IN  IF ~r.mapping
             THEN [status |-> "raised", rows |-> <<>>]
             ELSE IF g(r) = ""
                  THEN parse_loop(out, Tail(recs))
                  ELSE parse_loop(Append(out, ParsedRow(r)), Tail(recs))

\* parse_report_from_json (lines 98-136) on a body whose "rows" is the list recs
parse_report_from_json(recs) == parse_loop(<<>>, recs)

\* no response has come / a response has come and on_response is to handle it
NotParsed == [status |-> "none", rows |-> <<>>]
Pending == [status |-> "pending", rows |-> <<>>]

\* where the dimension of a record is: nowhere, at the top level, under "dimensions"
DimPlaces ==
    {<<"", "">>} \cup {<<k, "">> : k \in Keys} \cup {<<"", k>> : k \in Keys}

\* the values of a count: whole numbers, 1.5, and a value that is no number
RawCounts == {RawNum(2 * c) : c \in 0..MaxCount} \cup {RawNum(3), NotNum}

RawRecords ==
    {RawRecord(d[1], d[2], c, 0) : d \in DimPlaces, c \in RawCounts} \cup {NotAMapping}

\* the "rows" lists of the sampled responses
RawPayloads == UNION {[1..n -> RawRecords] : n \in 0..MaxRecords}

\* the records of a report as the source sends them: one record per key, the
\* dimension at the top level, whole numbers
ReportRecords(k) ==
    {RawRecord(k, "", RawNum(2 * cs[1]), cs[2]) :
        cs \in {x \in (0..MaxCount) \X (0..MaxCount) : x[2] <= x[1]}}

ReportPayloads ==
    LET recs == UNION {ReportRecords(k) : k \in Keys}
    IN  UNION {{s \in [1..n -> recs] : \A i, j \in 1..n : i # j => s[i].campaign # s[j].campaign} :
                  n \in 0..Cardinality(Keys)}

\* ------------------------------------------------------------- fetch_rows
\* the six metrics aggregate_rows_max merges
MergedMetrics ==
    {"clicks", "uniq", "conversions", "sales", "deposit_revenue", "sale_revenue"}

\* a faulty variant of merge_max: the sale revenue of the first row is kept
merge_max_but_sale_revenue(a, r) ==
    [a EXCEPT !.clicks = Max(a.clicks, r.clicks),
              !.uniq = Max(a.uniq, r.uniq),
              !.conversions = Max(a.conversions, r.conversions),
              !.sales = Max(a.sales, r.sales),
              !.deposit_revenue = Max(a.deposit_revenue, r.deposit_revenue)]

\* aggregate_rows_max, lines 328-334: a later row of a key is merged into the
\* accumulated one
merge_max(a, r) ==
    [a EXCEPT !.clicks = Max(a.clicks, r.clicks),
              !.uniq = Max(a.uniq, r.uniq),
              !.conversions = Max(a.conversions, r.conversions),
              !.sales = Max(a.sales, r.sales),
              !.deposit_revenue = Max(a.deposit_revenue, r.deposit_revenue),
              !.sale_revenue = Max(a.sale_revenue, r.sale_revenue)]

\* aggregate_rows_max, lines 323-334: the loop over the rows; acc is the dict, kept
\* as the list of its values in insertion order
RECURSIVE acc_loop(_, _)
acc_loop(acc, rs) ==
    IF rs = <<>> THEN acc
    ELSE LET r == Head(rs)
             hit == {i \in DOMAIN acc : acc[i].k = r.k}
         IN  IF hit = {}
             THEN acc_loop(Append(acc, r), Tail(rs))
             ELSE acc_loop([acc EXCEPT ![CHOOSE i \in hit : TRUE] = merge_max(@, r)],
                           Tail(rs))

\* aggregate_rows_max (lines 318-335)
aggregate_rows_max(rs) == acc_loop(<<>>, rs)

\* rows of one key whose metrics differ from each other: clicks, sales and the
\* deposit revenue follow a, the unique clicks, conversions and the sale revenue b
AggRow(k, a, b) ==
    [k |-> k, clicks |-> a, uniq |-> b, conversions |-> b, sales |-> a,
     deposit_revenue |-> RevPerSale * a, sale_revenue |-> RevPerSale * b]

AggRows == {AggRow(k, a, b) : k \in Keys, a \in 0..MaxCount, b \in 0..1}

\* the lists handed to aggregate_rows_max: any rows, keys repeated or not
AggLists == UNION {[1..n -> AggRows] : n \in 0..MaxCaptured}

\* what the parsers of the rendered page (lines 139-314) return when no JSON was
\* captured
FallbackLists == ShortLists

\* ------------------------------------------------------------- state (Gist)
\* The answers the gist API can give to load_state's GET.
LoadResponses ==
    {"request_exception", "status_not_200", "body_not_json",
     "content_not_json", "content_not_object"}
    \cup (IF gist.present THEN {"ok"} ELSE {"file_missing"})

DefaultState == [date |-> kyiv_today_str, rows |-> EmptyRows]

\* load_state(): what it raises or returns. requests.get (line 59) and r.json() (line 64) are
\* outside the try, so their exceptions leave load_state; json.loads of the stored
\* content is inside it (lines 66-69).
load_state(resp) ==
    CASE resp = "request_exception" ->
            [raised |-> "load_state: RequestException", object |-> FALSE,
             via |-> "", value |-> DefaultState]
      [] resp = "body_not_json" ->
            [raised |-> "load_state: JSONDecodeError", object |-> FALSE,
             via |-> "", value |-> DefaultState]
      [] resp = "content_not_object" ->
            [raised |-> "", object |-> FALSE, via |-> "stored", value |-> DefaultState]
      [] resp = "ok" ->
            [raised |-> "", object |-> TRUE, via |-> "stored",
             value |-> [date |-> gist.date, rows |-> gist.rows]]
      [] OTHER ->
            [raised |-> "", object |-> TRUE, via |-> "default", value |-> DefaultState]

\* The answers the gist API can give to save_state's PATCH.
SaveResponses == {"ok", "rejected"}

\* ------------------------------------------------------------- main: comparison
\* a faulty variant of baseline: rows without conversions are left out of the baseline
baseline_nonzero(rs) ==
    [k \in {rs[i].k : i \in {j \in DOMAIN rs : rs[j].conversions > 0}} |->
        rs[CHOOSE i \in DOMAIN rs : rs[i].k = k /\ \A j \in DOMAIN rs : rs[j].k = k => j <= i]]

\* {r["k"]: r for r in rows} (line 441): the last row of a key wins
baseline(rs) ==
    [k \in KeysOf(rs) |->
        rs[CHOOSE i \in DOMAIN rs : rs[i].k = k /\ \A j \in DOMAIN rs : rs[j].k = k => j <= i]]

\* a faulty variant of new_map: rows without conversions are left out of the snapshot
new_map_nonzero(rs) ==
    [k \in {rs[i].k : i \in {j \in DOMAIN rs : rs[j].conversions > 0}} |->
        rs[CHOOSE i \in DOMAIN rs : rs[i].k = k /\ \A j \in DOMAIN rs : rs[j].k = k => j <= i]]

\* new_map after the loop (lines 445, 499)
new_map(rs) ==
    [k \in KeysOf(rs) |->
        rs[CHOOSE i \in DOMAIN rs : rs[i].k = k /\ \A j \in DOMAIN rs : rs[j].k = k => j <= i]]

\* `old = prev_rows.get(k)` followed by `if old:` (lines 451, 460)
has_old(prev_rows, k) == k \in DOMAIN prev_rows

Block(alert, k, old, new, rev) ==
    [alert |-> alert, k |-> k, old |-> old, new |-> new, rev |-> rev]

\* a faulty variant of conv_block: a key that is not in the snapshot is not alerted
conv_block_known_keys(prev_rows, r) ==
    IF r.k \in DOMAIN prev_rows /\ r.conversions - prev_rows[r.k].conversions > 0
    THEN <<[alert |-> "CONVERSION", k |-> r.k, old |-> prev_rows[r.k].conversions,
            new |-> r.conversions, rev |-> 0]>>
    ELSE <<>>

\* a faulty variant of conv_block: the block reports the rise from zero even when
\* the snapshot holds the key
conv_block_from_zero(prev_rows, r) ==
    IF has_old(prev_rows, r.k)
    THEN LET old_conv == prev_rows[r.k].conversions
         IN  IF r.conversions - old_conv > 0
             THEN <<Block("CONVERSION", r.k, 0, r.conversions, 0)>>
             ELSE <<>>
    ELSE IF r.conversions > 0
         THEN <<Block("CONVERSION", r.k, 0, r.conversions, 0)>>
         ELSE <<>>

\* the conversion block of one row, if any (lines 460-469, 484-489)
conv_block(prev_rows, r) ==
    IF has_old(prev_rows, r.k)
    THEN LET old_conv == prev_rows[r.k].conversions
         IN  IF r.conversions - old_conv > 0
             THEN <<Block("CONVERSION", r.k, old_conv, r.conversions, 0)>>
             ELSE <<>>
    ELSE IF r.conversions > 0
         THEN <<Block("CONVERSION", r.k, 0, r.conversions, 0)>>
         ELSE <<>>

\* the sale block of one row, if any (lines 471-482, 490-497)
sale_block(prev_rows, r) ==
    LET new_rev == Max(r.deposit_revenue, r.sale_revenue)
    IN  IF has_old(prev_rows, r.k)
        THEN LET old == prev_rows[r.k]
                 old_sales == old.sales
                 old_rev == Max(old.deposit_revenue, old.sale_revenue)
             IN  IF r.sales - old_sales > 0
                 THEN <<Block("SALE", r.k, old_sales, r.sales, new_rev - old_rev)>>
                 ELSE <<>>
        ELSE IF r.sales > 0
             THEN <<Block("SALE", r.k, 0, r.sales, new_rev)>>
             ELSE <<>>

\* conv_msgs after the loop over rows (lines 446, 449-499)
RECURSIVE conv_msgs(_, _)
conv_msgs(prev_rows, rs) ==
    IF rs = <<>> THEN <<>>
    ELSE conv_block(prev_rows, Head(rs)) \o conv_msgs(prev_rows, Tail(rs))

\* sale_msgs after the loop over rows (lines 447, 449-499)
RECURSIVE sale_msgs(_, _)
sale_msgs(prev_rows, rs) ==
    IF rs = <<>> THEN <<>>
    ELSE sale_block(prev_rows, Head(rs)) \o sale_msgs(prev_rows, Tail(rs))

\* a faulty variant of blocks: the sale blocks come first
blocks_sales_first(prev_rows, rs) == sale_msgs(prev_rows, rs) \o conv_msgs(prev_rows, rs)

\* blocks = conv_msgs + sale_msgs (line 501)
blocks(prev_rows, rs) == conv_msgs(prev_rows, rs) \o sale_msgs(prev_rows, rs)

Message(kind, bs) == [kind |-> kind, blocks |-> bs]

\* a faulty variant of nodata_msgs: the notification is sent whatever the snapshot holds
nodata_msgs_always(prev_rows) == <<[kind |-> "nodata", blocks |-> <<>>]>>

\* a faulty variant of nodata_msgs: the notification is never sent
nodata_msgs_never(prev_rows) == <<>>

\* the text handed to tg_send when nothing was fetched, if any (lines 434-436)
nodata_msgs(prev_rows) ==
    IF DOMAIN prev_rows # {} THEN <<>> ELSE <<Message("nodata", <<>>)>>

\* a faulty variant of alert_msgs: every block is sent as a message of its own
alert_msgs_each(prev_rows, rs) ==
    LET bs == blocks(prev_rows, rs)
    IN  [i \in DOMAIN bs |-> Message("alert", <<bs[i]>>)]

\* the text handed to tg_send after the comparison, if any (lines 501-503)
alert_msgs(prev_rows, rs) ==
    LET bs == blocks(prev_rows, rs)
    IN  IF bs # <<>> THEN <<Message("alert", bs)>> ELSE <<>>

\* ------------------------------------------------------------- the run
NoRun == [ran |-> FALSE, today |-> 0, rows |-> <<>>, alerted |-> FALSE, same |-> FALSE]

NoPeak(d) ==
    [day |-> d, conversions |-> [k \in Keys |-> 0], sales |-> [k \in Keys |-> 0]]

\* nothing is accounted: no baseline was saved yet
NoAcct ==
    [day |-> 0, ok |-> [k \in Keys |-> [conversions |-> FALSE, sales |-> FALSE]],
     base |-> [k \in Keys |-> [conversions |-> 0, sales |-> 0]],
     sum |-> [k \in Keys |-> [conversions |-> 0, sales |-> 0]]]

NoOrder == [fetched |-> 0, saved |-> 0]

\* best_score = -1.0 (line 364), in hundredths
NoScore == -100

Init ==
    /\ clock = 1
    /\ gist = NoSnapshot
    /\ pc = [p \in Runners |-> "idle"]
    /\ today = [p \in Runners |-> 1]
    /\ state = [p \in Runners |-> [date |-> 1, rows |-> EmptyRows]]
    /\ loaded = [p \in Runners |-> ""]
    /\ rows = [p \in Runners |-> <<>>]
    /\ sent = [p \in Runners |-> NoMessages]
    /\ snap = [p \in Runners |-> NoSnapshot]
    /\ err = [p \in Runners |-> ""]
    /\ peak = NoPeak(1)
    /\ nodata = 0
    /\ prev = NoRun
    /\ order = NoOrder
    /\ acct = NoAcct
    /\ payload = <<>>
    /\ parsed = NotParsed
    /\ captured = <<>>
    /\ best_score = NoScore
    /\ seen = EmptyRows

Ended(p) == pc[p] \in {"idle", "done", "failed"}

\* midnight passes in the configured timezone
Tick ==
    /\ clock < MaxDay
    /\ clock' = clock + 1
    /\ UNCHANGED <<gist, pc, today, state, loaded, rows, sent, snap, err, fetchv>>

\* main, lines 425-428: a new run starts, loads the state and reads the date;
\* a stored content that is no JSON object makes state.get raise at line 426
LoadWith(p, responses) ==
    /\ Ended(p)
    /\ \E resp \in responses :
         LET got == load_state(resp)
             raised == IF got.raised # "" THEN got.raised
                       ELSE IF ~got.object THEN "main: AttributeError" ELSE ""
         IN  /\ state' = [state EXCEPT ![p] = got.value]
             /\ loaded' = [loaded EXCEPT ![p] = got.via]
             /\ err' = [err EXCEPT ![p] = raised]
             /\ pc' = [pc EXCEPT ![p] = IF raised # "" THEN "failed" ELSE "fetch"]
    /\ today' = [today EXCEPT ![p] = kyiv_today_str]
    /\ rows' = [rows EXCEPT ![p] = <<>>]
    /\ sent' = [sent EXCEPT ![p] = NoMessages]
    /\ snap' = [snap EXCEPT ![p] = NoSnapshot]
    /\ UNCHANGED <<clock, gist, fetchv>>

Load(p) == LoadWith(p, LoadResponses)

\* a load that the gist API answers with the state file as it is
LoadStored(p) == LoadWith(p, LoadResponses \cap {"ok", "file_missing"})

\* main, line 430: fetch_rows() returns one of `lists`
FetchFrom(p, lists) ==
    /\ pc[p] = "fetch"
    /\ \E fetched \in lists : rows' = [rows EXCEPT ![p] = fetched]
    /\ pc' = [pc EXCEPT ![p] = "decide"]
    /\ UNCHANGED <<clock, gist, today, state, loaded, sent, snap, err, fetchv>>

Fetch(p) == FetchFrom(p, FetchedLists)

\* a fetch of a report that holds at most one row
FetchShort(p) == FetchFrom(p, ShortLists)

\* sum(r["conversions"] + r["sales"] for r in rows), line 381
RECURSIVE SumCounts(_)
SumCounts(rs) ==
    IF rs = <<>> THEN 0 ELSE Head(rs).conversions + Head(rs).sales + SumCounts(Tail(rs))

\* score (line 381), in hundredths
score(rs) == 100 * Len(rs) + SumCounts(rs)

\* history: the highest value of each metric of each key over the rows rs and
\* what was seen before
SeenWith(sn, rs) ==
    [k \in DOMAIN sn \cup KeysOf(rs) |->
        [m \in MergedMetrics |->
            LET vs == (IF k \in DOMAIN sn THEN {sn[k][m]} ELSE {})
                      \cup {rs[i][m] : i \in {j \in DOMAIN rs : rs[j].k = k}}
            IN  CHOOSE v \in vs : \A w \in vs : w <= v]]

\* a response with a JSON object whose "rows" is a list arrives (lines 367-374)
Respond(p, bodies) ==
    /\ pc[p] = "fetch"
    /\ parsed.status # "pending"
    /\ payload' \in bodies
    /\ parsed' = Pending
    /\ UNCHANGED <<clock, gist, pc, today, state, loaded, rows, sent, snap, err,
                   captured, best_score, seen>>

\* on_response (lines 366-386) handles the response: the rows parsed from it
\* replace `captured` when they score higher than every payload before. An
\* exception of the parser leaves the handler: it ends the run or is dropped by
\* the event loop.
OnResponse(p) ==
    /\ pc[p] = "fetch"
    /\ parsed.status = "pending"
    /\ parsed' = parse_report_from_json(payload)
    /\ IF parsed'.status = "raised"
       THEN /\ \/ pc' = [pc EXCEPT ![p] = "failed"]
                  /\ err' = [err EXCEPT ![p] = "parse_report_from_json: AttributeError"]
               \/ UNCHANGED <<pc, err>>
            /\ UNCHANGED <<captured, best_score, seen>>
       ELSE IF parsed'.rows = <<>>
       THEN UNCHANGED <<pc, err, captured, best_score, seen>>
       ELSE /\ IF score(parsed'.rows) > best_score
               THEN /\ captured' = parsed'.rows
                    /\ best_score' = score(parsed'.rows)
               ELSE UNCHANGED <<captured, best_score>>
            /\ seen' = SeenWith(seen, parsed'.rows)
            /\ UNCHANGED <<pc, err>>
    /\ UNCHANGED <<clock, gist, today, state, loaded, rows, sent, snap, payload>>

\* fetch_rows, lines 403-420: the captured rows, or else what the parsers of the
\* page give, are aggregated and returned
FetchReturn(p) ==
    /\ pc[p] = "fetch"
    /\ \E fb \in FallbackLists :
         rows' = [rows EXCEPT ![p] =
                    aggregate_rows_max(IF captured # <<>> THEN captured ELSE fb)]
    /\ pc' = [pc EXCEPT ![p] = "decide"]
    /\ UNCHANGED <<clock, gist, today, state, loaded, sent, snap, err, fetchv>>

\* main, line 430: fetch_rows() raises (the browser cannot be started, the page
\* cannot be opened)
FetchFails(p) ==
    /\ pc[p] = "fetch"
    /\ pc' = [pc EXCEPT ![p] = "failed"]
    /\ err' = [err EXCEPT ![p] = "fetch_rows: PlaywrightError"]
    /\ UNCHANGED <<clock, gist, today, state, loaded, rows, sent, snap, fetchv>>

\* main, lines 433-437: nothing was fetched
NoData(p) ==
    /\ pc[p] = "decide"
    /\ rows[p] = <<>>
    /\ sent' = [sent EXCEPT ![p] = @ \o nodata_msgs(state[p].rows)]
    /\ pc' = [pc EXCEPT ![p] = "done"]
    /\ UNCHANGED <<clock, gist, today, state, loaded, rows, snap, err, fetchv>>

\* main, lines 440-442: the snapshot is of another day; the rows become the baseline
Baseline(p) ==
    /\ pc[p] = "decide"
    /\ rows[p] # <<>>
    /\ state[p].date # today[p]
    /\ snap' = [snap EXCEPT ![p] =
                  [present |-> TRUE, date |-> today[p], rows |-> baseline(rows[p])]]
    /\ pc' = [pc EXCEPT ![p] = "save"]
    /\ UNCHANGED <<clock, gist, today, state, loaded, rows, sent, err, fetchv>>

\* main, lines 445-503: same day; compare, then send the alert blocks if any
Compare(p) ==
    /\ pc[p] = "decide"
    /\ rows[p] # <<>>
    /\ state[p].date = today[p]
    /\ sent' = [sent EXCEPT ![p] = @ \o alert_msgs(state[p].rows, rows[p])]
    /\ snap' = [snap EXCEPT ![p] =
                  [present |-> TRUE, date |-> today[p], rows |-> new_map(rows[p])]]
    /\ pc' = [pc EXCEPT ![p] = "save"]
    /\ UNCHANGED <<clock, gist, today, state, loaded, rows, err, fetchv>>

\* a faulty variant of SaveWith: a rejected PATCH is swallowed and the run ends well
SaveWith_swallowed(p, responses) ==
    /\ pc[p] = "save"
    /\ \E resp \in responses :
         IF resp = "ok"
         THEN /\ gist' = snap[p]
              /\ pc' = [pc EXCEPT ![p] = "done"]
              /\ err' = err
         ELSE /\ gist' = gist
              /\ pc' = [pc EXCEPT ![p] = "done"]
              /\ err' = err
    /\ UNCHANGED <<clock, today, state, loaded, rows, sent, snap, fetchv>>

\* a faulty variant of SaveWith: the PATCH is applied only when the gist still holds
\* what the run loaded
SaveWith_guarded(p, responses) ==
    /\ pc[p] = "save"
    /\ \E resp \in responses :
         IF resp = "ok"
         THEN /\ gist' = IF gist.present /\ loaded[p] = "stored"
                            /\ (gist.date # state[p].date \/ gist.rows # state[p].rows)
                         THEN gist ELSE snap[p]
              /\ pc' = [pc EXCEPT ![p] = "done"]
              /\ err' = err
         ELSE /\ gist' = gist
              /\ pc' = [pc EXCEPT ![p] = "failed"]
              /\ err' = [err EXCEPT ![p] = "save_state: HTTPError"]
    /\ UNCHANGED <<clock, today, state, loaded, rows, sent, snap, fetchv>>

\* save_state (lines 72-79), called at line 442 or 505: the PATCH is applied, or
\* it is rejected and raise_for_status ends the run
SaveWith(p, responses) ==
    /\ pc[p] = "save"
    /\ \E resp \in responses :
         IF resp = "ok"
         THEN /\ gist' = snap[p]
              /\ pc' = [pc EXCEPT ![p] = "done"]
              /\ err' = err
         ELSE /\ gist' = gist
              /\ pc' = [pc EXCEPT ![p] = "failed"]
              /\ err' = [err EXCEPT ![p] = "save_state: HTTPError"]
    /\ UNCHANGED <<clock, today, state, loaded, rows, sent, snap, fetchv>>

Save(p) == SaveWith(p, SaveResponses)

\* a save that the gist API applies
SaveApplied(p) == SaveWith(p, {"ok"})

\* the scheduled job: one runner, runs do not overlap
Next ==
    \/ Tick /\ UNCHANGED hist
    \/ Load(1) /\ UNCHANGED hist
    \/ Fetch(1) /\ UNCHANGED hist
    \/ FetchFails(1) /\ UNCHANGED hist
    \/ NoData(1) /\ UNCHANGED hist
    \/ Baseline(1) /\ UNCHANGED hist
    \/ Compare(1) /\ UNCHANGED hist
    \/ Save(1) /\ UNCHANGED hist

Spec == Init /\ [][Next]_vars

\* ------------------------------------------------------------- histories
\* the run's snapshot went through the baseline branch / the comparison branch
BaselineRan(p) ==
    pc[p] \in {"save", "done", "failed"} /\ snap[p].present /\ state[p].date # today[p]

CompareRan(p) ==
    pc[p] \in {"save", "done", "failed"} /\ snap[p].present /\ state[p].date = today[p]

\* every block of every message this run sent
SentBlocks(p) ==
    {sent[p][i].blocks[j] : <<i, j>> \in
        {x \in (DOMAIN sent[p]) \X (1..Cardinality(Keys) * 2) :
            x[2] \in DOMAIN sent[p][x[1]].blocks}}

AlertKind(m) == IF m = "conversions" THEN "CONVERSION" ELSE "SALE"

PeakOn(d) == IF peak.day = d THEN peak ELSE NoPeak(d)

\* the value of metric m of key k that run p, leaving save_state, has baselined
\* (a baseline that was saved) or alerted (a comparison, saved or not); 0 if none
Surfaced(p, m, k) ==
    IF state[p].date # today[p]
    THEN IF pc'[p] = "done" /\ k \in DOMAIN snap[p].rows THEN snap[p].rows[k][m] ELSE 0
    ELSE LET bs == {b \in SentBlocks(p) : b.alert = AlertKind(m) /\ b.k = k}
         IN  IF bs = {} THEN 0 ELSE (CHOOSE b \in bs : \A c \in bs : c.new <= b.new).new

RecordPeak(p) ==
    peak' = [day |-> today[p],
             conversions |-> [k \in Keys |->
                 Max(PeakOn(today[p]).conversions[k], Surfaced(p, "conversions", k))],
             sales |-> [k \in Keys |->
                 Max(PeakOn(today[p]).sales[k], Surfaced(p, "sales", k))]]

\* the scheduled job with every load answered from the stored file and every save
\* applied, recording what each day's runs have baselined and alerted
NextPeak ==
    \/ Tick /\ UNCHANGED hist
    \/ LoadStored(1) /\ UNCHANGED hist
    \/ Fetch(1) /\ UNCHANGED hist
    \/ FetchFails(1) /\ UNCHANGED hist
    \/ NoData(1) /\ UNCHANGED hist
    \/ Baseline(1) /\ UNCHANGED hist
    \/ Compare(1) /\ UNCHANGED hist
    \/ SaveApplied(1) /\ RecordPeak(1) /\ UNCHANGED <<nodata, prev, order, acct>>

SpecPeak == Init /\ [][NextPeak]_vars

RecordNoData(p) ==
    nodata' = IF sent'[p] # sent[p] THEN today[p] ELSE nodata

\* the scheduled job on reports of at most one row (the branch on an empty fetch
\* reads only whether rows and prev_rows are empty), recording the latest "no data"
\* notification
NextNoData ==
    \/ Tick /\ UNCHANGED hist
    \/ Load(1) /\ UNCHANGED hist
    \/ FetchShort(1) /\ UNCHANGED hist
    \/ FetchFails(1) /\ UNCHANGED hist
    \/ NoData(1) /\ RecordNoData(1) /\ UNCHANGED <<peak, prev, order, acct>>
    \/ Baseline(1) /\ UNCHANGED hist
    \/ Compare(1) /\ UNCHANGED hist
    \/ Save(1) /\ UNCHANGED hist

SpecNoData == Init /\ [][NextNoData]_vars

\* every alert message this run sent
AlertsSent(p) == {i \in DOMAIN sent[p] : sent[p][i].kind = "alert"}

\* a new run starts: what the run that ended fetched and sent is remembered
RecordRun(p) ==
    prev' = [ran |-> pc[p] # "idle", today |-> today[p], rows |-> rows[p],
             alerted |-> AlertsSent(p) # {}, same |-> FALSE]

\* the fetch returns: whether it is the remembered run's input again (the same
\* rows on the same day) is all that is kept of that run's rows
RecordSame(p) ==
    prev' = [prev EXCEPT !.same = prev.ran /\ prev.today = today[p] /\ prev.rows = rows'[p],
                         !.rows = <<>>]

\* the scheduled job with every load answered from the stored file, remembering
\* the run before the current one
NextRerun ==
    \/ Tick /\ UNCHANGED hist
    \/ LoadStored(1) /\ RecordRun(1) /\ UNCHANGED <<peak, nodata, order, acct>>
    \/ Fetch(1) /\ RecordSame(1) /\ UNCHANGED <<peak, nodata, order, acct>>
    \/ FetchFails(1) /\ UNCHANGED hist
    \/ NoData(1) /\ UNCHANGED hist
    \/ Baseline(1) /\ UNCHANGED hist
    \/ Compare(1) /\ UNCHANGED hist
    \/ Save(1) /\ UNCHANGED hist

SpecRerun == Init /\ [][NextRerun]_vars

\* ------------------------------------------------------------- properties
\* the map m holds exactly the rows of the list rs, one entry per key, each row as fetched
RowsVerbatim(m, rs) ==
    /\ DOMAIN m = KeysOf(rs)
    /\ \A i \in DOMAIN rs : m[rs[i].k] = rs[i]

\* the run has gone through its branch (lines 433-503)
Decided(p) == pc[p] \in {"save", "done", "failed"} /\ rows[p] # <<>>

Metrics == {"conversions", "sales"}

\* the value of metric m the snapshot prev_rows holds for key k, 0 when it has none
OldValue(prev_rows, k, m) == IF k \in DOMAIN prev_rows THEN prev_rows[k][m] ELSE 0

\* C1: a run whose loaded snapshot is of another day than today sends no alert, and
\* the snapshot it hands to save_state, and the gist holds once it is saved, has
\* date = today and exactly the fetched rows, one entry per key, each row verbatim.
C1_BaselineRun ==
    \A p \in Runners :
        (pc[p] \in {"fetch", "decide", "save", "done", "failed"} /\ state[p].date # today[p]) =>
            /\ AlertsSent(p) = {}
            /\ Decided(p) =>
                 /\ snap[p].present
                 /\ snap[p].date = today[p]
                 /\ RowsVerbatim(snap[p].rows, rows[p])
            /\ (Decided(p) /\ pc[p] = "done") => gist = snap[p]

\* C1 witness: a baseline run of two rows has saved; one of its rows has more
\* conversions than the snapshot of the day before held for that key
C1_Witness ==
    \E p \in Runners :
        /\ pc[p] = "done"
        /\ state[p].date # today[p]
        /\ Len(rows[p]) = 2
        /\ gist.date = today[p]
        /\ \E i \in DOMAIN rows[p] :
             /\ rows[p][i].k \in DOMAIN state[p].rows
             /\ rows[p][i].conversions > state[p].rows[rows[p][i].k].conversions

\* C2: on the runs of one day, every alert's new value for a key and metric strictly
\* exceeds every value baselined or alerted before for that key and metric on that
\* day (a count that goes v -> lower -> v is not alerted when it is back at v).
C2_AlertsExceedEarlierValues ==
    \A p \in Runners :
        pc[p] = "save" =>
            \A b \in SentBlocks(p) :
                b.new > PeakOn(today[p])[IF b.alert = "CONVERSION" THEN "conversions"
                                         ELSE "sales"][b.k]

\* C3: in a same-day run, for every key of the prior snapshot that was fetched and
\* each of conversions, sales and the revenues, the persisted value is >= the prior
\* one, and is the fetched value whenever that is >= the prior one.
C3_MonotonicClamp ==
    \A p \in Runners :
        (CompareRan(p) /\ pc[p] = "done") =>
            \A k \in DOMAIN state[p].rows \cap DOMAIN gist.rows :
                \A m \in {"conversions", "sales", "deposit_revenue", "sale_revenue"} :
                    /\ gist.rows[k][m] >= state[p].rows[k][m]
                    /\ \A i \in DOMAIN rows[p] :
                         (rows[p][i].k = k /\ rows[p][i][m] >= state[p].rows[k][m])
                             => gist.rows[k][m] = rows[p][i][m]

\* C4: a run has sent an alert only once its snapshot is saved: no alert is out
\* while the save is still to come, or after the save has failed.
C4_PersistBeforeNotify ==
    \A p \in Runners :
        AlertsSent(p) # {} => (pc[p] = "done" /\ gist = snap[p])

\* C5: a run whose load_state fell back to the default snapshot behaves as a
\* baseline run: it sends no alert and hands the fetched rows verbatim to save_state.
C5_FallbackRunsAsBaseline ==
    \A p \in Runners :
        (loaded[p] = "default" /\ Decided(p)) =>
            /\ AlertsSent(p) = {}
            /\ snap[p].present
            /\ RowsVerbatim(snap[p].rows, rows[p])

\* C6: whatever the gist API answers to the load (an exception, a status other than
\* 200, no file, a body or a content that is no JSON, a content that is no object),
\* the run goes on with a snapshot and never ends with an error of the load.
C6_LoadFailsSoft ==
    \A p \in Runners :
        err[p] \notin {"load_state: RequestException", "load_state: JSONDecodeError",
                       "main: AttributeError"}

\* C7: in a same-day run, for every fetched row and each of conversions and sales,
\* the message holds a block for that key and metric iff observed - old > EPS, old
\* being the loaded snapshot's value or 0 when it has no such key; the block reports
\* old -> observed, and the new snapshot holds the key with the row as observed.
C7_AlertIffIncrease ==
    \A p \in Runners :
        CompareRan(p) =>
            \A i \in DOMAIN rows[p] : \A m \in Metrics :
                LET r == rows[p][i]
                    old == OldValue(state[p].rows, r.k, m)
                    bs == {b \in SentBlocks(p) : b.alert = AlertKind(m) /\ b.k = r.k}
                IN  /\ (bs # {}) <=> ((r[m] - old) * 1000 > EPS_MILLI)
                    /\ \A b \in bs : b.old = old /\ b.new = r[m]
                    /\ r.k \in DOMAIN snap[p].rows
                    /\ snap[p].rows[r.k] = r

\* C7 witness: a same-day run against a snapshot that holds rows has saved, having
\* alerted one key from a value above 0, another key from zero (it was not in the
\* snapshot), and having fetched a row whose conversions did not rise
C7_Witness ==
    \E p \in Runners :
        /\ CompareRan(p)
        /\ pc[p] = "done"
        /\ \E b \in SentBlocks(p) : b.old > 0 /\ b.k \in DOMAIN state[p].rows
        /\ \E b \in SentBlocks(p) : b.k \notin DOMAIN state[p].rows
        /\ \E i \in DOMAIN rows[p] :
             /\ rows[p][i].k \in DOMAIN state[p].rows
             /\ rows[p][i].conversions <= state[p].rows[rows[p][i].k].conversions
             /\ rows[p][i].sales > state[p].rows[rows[p][i].k].sales

\* C8: a same-day run that fetches exactly the rows of the loaded snapshot sends no
\* alert and hands an equal snapshot to save_state; and of two runs in a row on the
\* same day that fetch the same rows, the second sends no alert.
C8_RerunIdempotent ==
    \A p \in Runners :
        /\ (CompareRan(p) /\ RowsVerbatim(state[p].rows, rows[p])) =>
              /\ AlertsSent(p) = {}
              /\ snap[p].date = state[p].date
              /\ snap[p].rows = state[p].rows
        /\ (Decided(p) /\ prev.same) => AlertsSent(p) = {}

\* C9: a run that fetched nothing while the snapshot it loaded holds rows, of
\* whatever date, sends nothing and calls no save: the gist still holds the
\* snapshot that was loaded.
C9_EmptyFetchKeepsSnapshot ==
    \A p \in Runners :
        (pc[p] = "done" /\ rows[p] = <<>> /\ DOMAIN state[p].rows # {}) =>
            /\ sent[p] = <<>>
            /\ ~snap[p].present
            /\ gist = [present |-> TRUE, date |-> state[p].date, rows |-> state[p].rows]

\* C9 witness: such a run has ended, and its snapshot was of the day before
C9_Witness ==
    \E p \in Runners :
        /\ pc[p] = "done"
        /\ rows[p] = <<>>
        /\ DOMAIN state[p].rows # {}
        /\ state[p].date # today[p]

\* a step of run p after its fetch returned nothing
EmptyFetchStep(p) == pc[p] = "decide" /\ rows[p] = <<>> /\ pc'[p] # pc[p]

\* C10 as stated: of the runs of one day that fetch nothing, at most one sends the
\* "no data" notification, and none of them changes the gist.
C10_NoDataOncePerDay ==
    [][\A p \in Runners :
          EmptyFetchStep(p) =>
              /\ gist' = gist
              /\ sent'[p] # sent[p] => nodata # today[p]]_vars

\* C10 amended: a run that fetched nothing sends the "no data" notification exactly
\* when the snapshot it loaded holds no rows, sends nothing else, calls no save and
\* leaves the gist as it is.
C10_NoDataIffNoRows ==
    [][\A p \in Runners :
          EmptyFetchStep(p) =>
              /\ gist' = gist
              /\ pc'[p] = "done"
              /\ ~snap'[p].present
              /\ sent'[p] = IF DOMAIN state[p].rows = {}
                            THEN <<Message("nodata", <<>>)>> ELSE <<>>]_vars

\* C10 witness: a run that fetched nothing and had loaded no rows has ended, the
\* notification sent, while the gist holds a snapshot (the load fell back)
C10_Witness ==
    \E p \in Runners :
        /\ pc[p] = "done"
        /\ rows[p] = <<>>
        /\ sent[p] = <<Message("nodata", <<>>)>>
        /\ nodata = today[p]
        /\ gist.present

\* run p leaves save_state in this step
SaveStep(p) == pc[p] = "save" /\ pc'[p] # "save"

\* C11: a run leaves save_state either with the gist holding exactly the snapshot it
\* handed over, or failed with the HTTP error and the gist as it was; and no other
\* step of a run (so no run that ends before save_state) changes the gist.
C11_SaveFailsLoud ==
    [][/\ \A p \in Runners :
            SaveStep(p) =>
                \/ pc'[p] = "done" /\ err'[p] = "" /\ gist' = snap[p]
                \/ pc'[p] = "failed" /\ err'[p] = "save_state: HTTPError" /\ gist' = gist
       /\ gist' # gist => \E p \in Runners : SaveStep(p)]_vars

\* C11 witness: a run has failed in save_state; the gist holds an earlier snapshot
\* that differs from the one the run handed over
C11_Witness ==
    \E p \in Runners :
        /\ pc[p] = "failed"
        /\ err[p] = "save_state: HTTPError"
        /\ gist.present
        /\ snap[p].present
        /\ gist # snap[p]

\* ------------------------------------------------------------- aggregate_rows_max
\* aggregate_rows_max applied to any list of rows
InitAgg ==
    /\ clock = 1
    /\ gist = NoSnapshot
    /\ pc = [p \in Runners |-> "idle"]
    /\ today = [p \in Runners |-> 1]
    /\ state = [p \in Runners |-> [date |-> 1, rows |-> EmptyRows]]
    /\ loaded = [p \in Runners |-> ""]
    /\ rows = [p \in Runners |-> <<>>]
    /\ sent = [p \in Runners |-> NoMessages]
    /\ snap = [p \in Runners |-> NoSnapshot]
    /\ err = [p \in Runners |-> ""]
    /\ peak = NoPeak(1)
    /\ nodata = 0
    /\ prev = NoRun
    /\ order = NoOrder
    /\ acct = NoAcct
    /\ payload = <<>>
    /\ parsed = NotParsed
    /\ captured \in AggLists
    /\ best_score = NoScore
    /\ seen = EmptyRows

NextAgg ==
    \/ LoadStored(1) /\ UNCHANGED hist
    \/ FetchReturn(1) /\ UNCHANGED hist

SpecAgg == InitAgg /\ [][NextAgg]_vars

\* the list rs as a map from key to row
AsMap(rs) == [k \in KeysOf(rs) |-> rs[CHOOSE i \in DOMAIN rs : rs[i].k = k]]

\* the lists that hold the rows of rs in another order
Reordered(rs) ==
    {[i \in DOMAIN rs |-> rs[f[i]]] :
        f \in {q \in [DOMAIN rs -> DOMAIN rs] : \A i, j \in DOMAIN rs : i # j => q[i] # q[j]}}

\* C12: aggregate_rows_max returns exactly one row per key of its input; each of the
\* six metrics of that row is the maximum of the metric over the input rows of the
\* key; and the rows returned for any other order of the input are the same.
C12_AggregateMax ==
    (pc[1] = "decide" /\ captured # <<>>) =>
        /\ KeysOf(rows[1]) = KeysOf(captured)
        /\ \A i, j \in DOMAIN rows[1] : i # j => rows[1][i].k # rows[1][j].k
        /\ \A i \in DOMAIN rows[1] : \A m \in MergedMetrics :
             /\ \A j \in DOMAIN captured :
                  captured[j].k = rows[1][i].k => captured[j][m] <= rows[1][i][m]
             /\ \E j \in DOMAIN captured :
                  captured[j].k = rows[1][i].k /\ captured[j][m] = rows[1][i][m]
        /\ \A q \in Reordered(captured) : AsMap(aggregate_rows_max(q)) = AsMap(rows[1])

\* C12 witness: three rows were aggregated, two of one key of which the first has
\* the higher clicks and the second the higher conversions, and one of another key
C12_Witness ==
    /\ pc[1] = "decide"
    /\ Len(captured) = 3
    /\ Len(rows[1]) = 2
    /\ \E i, j \in DOMAIN captured :
         /\ i < j
         /\ captured[i].k = captured[j].k
         /\ captured[i].clicks > captured[j].clicks
         /\ captured[i].sale_revenue < captured[j].sale_revenue

\* ------------------------------------------------------------- parse_report_from_json
\* on_response is given any body whose "rows" is a list of up to MaxRecords records
InitParse ==
    /\ clock = 1
    /\ gist = NoSnapshot
    /\ pc = [p \in Runners |-> "idle"]
    /\ today = [p \in Runners |-> 1]
    /\ state = [p \in Runners |-> [date |-> 1, rows |-> EmptyRows]]
    /\ loaded = [p \in Runners |-> ""]
    /\ rows = [p \in Runners |-> <<>>]
    /\ sent = [p \in Runners |-> NoMessages]
    /\ snap = [p \in Runners |-> NoSnapshot]
    /\ err = [p \in Runners |-> ""]
    /\ peak = NoPeak(1)
    /\ nodata = 0
    /\ prev = NoRun
    /\ order = NoOrder
    /\ acct = NoAcct
    /\ payload \in RawPayloads
    /\ parsed = Pending
    /\ captured = <<>>
    /\ best_score = NoScore
    /\ seen = EmptyRows

NextParse ==
    \/ LoadStored(1) /\ UNCHANGED hist
    \/ OnResponse(1) /\ UNCHANGED hist
    \/ FetchReturn(1) /\ UNCHANGED hist

SpecParse == InitParse /\ [][NextParse]_vars

\* the record is well formed: an object with a non-empty dimension and metrics
\* that are numbers
WellFormed(r) ==
    /\ r.mapping
    /\ g(r) # ""
    /\ r.clicks.num /\ r.campaign_unique_clicks.num /\ r.conversions.num /\ r.sales.num

\* C13: whatever records a payload mixes (records without a dimension, with metrics
\* that are no numbers, records that are no objects), parse_report_from_json raises
\* nothing and returns the row of every well-formed record.
C13_MalformedRecordDropped ==
    parsed.status \in {"returned", "raised"} =>
        /\ parsed.status = "returned"
        /\ \A i \in DOMAIN payload :
             WellFormed(payload[i]) =>
                 \E j \in DOMAIN parsed.rows : parsed.rows[j] = ParsedRow(payload[i])

\* ------------------------------------------------------------- revenue
\* the scheduled job on reports whose rows carry both revenue fields, every load
\* answered from the stored file and every save applied
NextRev ==
    \/ Tick /\ UNCHANGED hist
    \/ LoadStored(1) /\ UNCHANGED hist
    \/ FetchFrom(1, RevLists) /\ UNCHANGED hist
    \/ NoData(1) /\ UNCHANGED hist
    \/ Baseline(1) /\ UNCHANGED hist
    \/ Compare(1) /\ UNCHANGED hist
    \/ SaveApplied(1) /\ UNCHANGED hist

SpecRev == Init /\ [][NextRev]_vars

\* the revenue of a row by precedence: deposit_revenue, and sale_revenue only when
\* deposit_revenue is zero
FirstNonZero(r) == IF r.deposit_revenue # 0 THEN r.deposit_revenue ELSE r.sale_revenue

\* C14: the revenue delta of every sale block is new_revenue - old_revenue, each
\* being the first non-zero of (deposit_revenue, sale_revenue) of the fetched row and
\* of the snapshot's row of the key (0 when the snapshot has none).
C14_RevenueFirstNonZero ==
    \A p \in Runners :
        CompareRan(p) =>
            \A i \in DOMAIN rows[p] :
                \A b \in {c \in SentBlocks(p) : c.alert = "SALE" /\ c.k = rows[p][i].k} :
                    b.rev = FirstNonZero(rows[p][i])
                            - (IF b.k \in DOMAIN state[p].rows
                               THEN FirstNonZero(state[p].rows[b.k]) ELSE 0)

\* C15: a run sends at most one alert message, and a same-day run sends it iff some
\* fetched row has a metric above the snapshot's value by more than EPS; in the
\* message every conversion block precedes every sale block, and no key has two
\* blocks of one metric.
C15_OneMessagePerRun ==
    \A p \in Runners :
        /\ Cardinality(AlertsSent(p)) <= 1
        /\ ~CompareRan(p) => AlertsSent(p) = {}
        /\ CompareRan(p) =>
             (AlertsSent(p) # {} <=>
                 \E i \in DOMAIN rows[p] : \E m \in Metrics :
                     (rows[p][i][m] - OldValue(state[p].rows, rows[p][i].k, m)) * 1000
                         > EPS_MILLI)
        /\ \A n \in AlertsSent(p) :
             LET bs == sent[p][n].blocks
             IN  /\ bs # <<>>
                 /\ \A i, j \in DOMAIN bs :
                      i < j => /\ ~(bs[i].alert = "SALE" /\ bs[j].alert = "CONVERSION")
                               /\ ~(bs[i].alert = bs[j].alert /\ bs[i].k = bs[j].k)

\* C15 witness: a run has sent one message that holds conversion blocks of two keys
\* followed by sale blocks of two keys
C15_Witness ==
    \E p \in Runners :
        /\ pc[p] = "done"
        /\ Len(sent[p]) = 1
        /\ sent[p][1].kind = "alert"
        /\ Len(sent[p][1].blocks) = 4
        /\ sent[p][1].blocks[2].alert = "CONVERSION"
        /\ sent[p][1].blocks[3].alert = "SALE"

\* ------------------------------------------------------------- capture
\* one run's fetch: responses with report payloads arrive and are handled one
\* after the other, then fetch_rows returns
NextFetch ==
    \/ LoadStored(1) /\ UNCHANGED hist
    \/ Respond(1, ReportPayloads) /\ UNCHANGED hist
    \/ OnResponse(1) /\ UNCHANGED hist
    \/ FetchReturn(1) /\ UNCHANGED hist

SpecFetch == Init /\ [][NextFetch]_vars

\* C16: the rows fetch_rows returns combine every payload handled in the run: every
\* key of any of the payloads has a row, and each metric of that row is the highest
\* value over the payloads.
C16_AllPayloadsCombined ==
    (pc[1] = "decide" /\ captured # <<>>) =>
        /\ DOMAIN seen \subseteq KeysOf(rows[1])
        /\ \A i \in DOMAIN rows[1] :
             rows[1][i].k \in DOMAIN seen =>
                 \A m \in MergedMetrics : rows[1][i][m] = seen[rows[1][i].k][m]

\* ------------------------------------------------------------- overlapping runs
RecordFetched(p) == order' = [order EXCEPT !.fetched = p]

RecordSaved(p) == order' = [order EXCEPT !.saved = p]

\* two runners on one day and one gist, their runs interleaved step by step; the
\* report holds the one key A, every load is answered from the stored file and
\* every save is applied
NextRace ==
    \E p \in Runners :
        \/ LoadStored(p) /\ UNCHANGED hist
        \/ FetchFrom(p, RaceLists) /\ RecordFetched(p) /\ UNCHANGED <<peak, nodata, prev, acct>>
        \/ Compare(p) /\ UNCHANGED hist
        \/ SaveApplied(p) /\ RecordSaved(p) /\ UNCHANGED <<peak, nodata, prev, acct>>

SpecRace == Init /\ [][NextRace]_vars

\* C17: nothing orders the runs of two runners: each run alerts on what it loaded
\* and fetched itself, whatever the other run has alerted or saved meanwhile, and
\* the gist holds the snapshot of the run that saved last, whatever was saved
\* between that run's load and its save.
C17_LastSaveWins ==
    \A p \in Runners :
        /\ CompareRan(p) => sent[p] = alert_msgs(state[p].rows, rows[p])
        /\ (pc[p] = "done" /\ order.saved = p) => gist = snap[p]

\* C17 witness: two runs loaded the same snapshot; the one that fetched last (the
\* newer data, a higher count) saved first, the one that fetched the older data
\* saved last; both have alerted the increase of A from the loaded value, and the
\* gist holds the older data
C17_Witness ==
    \E p, q \in Runners :
        /\ p # q
        /\ pc[p] = "done" /\ pc[q] = "done"
        /\ loaded[p] = "stored" /\ loaded[q] = "stored"
        /\ state[p] = state[q]
        /\ "A" \in DOMAIN state[p].rows
        /\ order.fetched = q
        /\ order.saved = p
        /\ rows[q][1].conversions > rows[p][1].conversions
        /\ \E b \in SentBlocks(p) : \E c \in SentBlocks(q) :
             b.k = "A" /\ c.k = "A" /\ b.old = c.old /\ b.alert = c.alert
        /\ gist = snap[p]
        /\ gist.rows["A"].conversions < snap[q].rows["A"].conversions

\* C18: the snapshot a same-day run hands to save_state, and the gist once it is
\* saved, holds exactly the keys of the fetched rows: a key of the loaded snapshot
\* that was not fetched is gone, and a fetched key that the loaded snapshot does not
\* hold is compared with 0.
C18_SnapshotKeysAreFetchedKeys ==
    \A p \in Runners :
        CompareRan(p) =>
            /\ DOMAIN snap[p].rows = KeysOf(rows[p])
            /\ pc[p] = "done" => DOMAIN gist.rows = KeysOf(rows[p])
            /\ \A b \in SentBlocks(p) : b.k \notin DOMAIN state[p].rows => b.old = 0

\* C18 witness: a same-day run has saved; a key of the snapshot it loaded was not
\* fetched and is no longer in the gist, and a key that the loaded snapshot did not
\* hold was alerted from 0
C18_Witness ==
    \E p \in Runners :
        /\ CompareRan(p)
        /\ pc[p] = "done"
        /\ \E k \in DOMAIN state[p].rows : k \notin DOMAIN gist.rows
        /\ \E b \in SentBlocks(p) : b.k \notin DOMAIN state[p].rows /\ b.k \in DOMAIN gist.rows

\* C19: whenever a run leaves save_state it has ended, and what it wrote, if the
\* write was applied, is dated with the run's `today` and holds at least one row,
\* each under its own key; nothing else writes the gist; a run that has ended does
\* nothing more (the next step of its runner is a new run), a run has handed at
\* most one text to tg_send, and a run that fetched nothing does not reach
\* save_state.
C19_OneSaveOneSend ==
    [][/\ \A p \in Runners :
            /\ SaveStep(p) =>
                 /\ pc'[p] \in {"done", "failed"}
                 /\ \/ gist' = gist
                    \/ /\ gist'.present
                       /\ gist'.date = today[p]
                       /\ DOMAIN gist'.rows = KeysOf(rows[p])
                       /\ DOMAIN gist'.rows # {}
                       /\ \A k \in DOMAIN gist'.rows : gist'.rows[k].k = k
            /\ (pc[p] \in {"done", "failed"} /\ pc'[p] # pc[p]) =>
                 /\ pc'[p] \in {"fetch", "failed"}
                 /\ sent'[p] = <<>>
                 /\ ~snap'[p].present
            /\ Len(sent'[p]) <= 1
            /\ (pc[p] = "decide" /\ rows[p] = <<>>) => pc'[p] \in {"decide", "done"}
       /\ gist' # gist => \E p \in Runners : SaveStep(p)]_vars

\* C19 witness: a run has sent its message and saved a snapshot of two rows
C19_Witness ==
    \E p \in Runners :
        /\ pc[p] = "done"
        /\ Len(sent[p]) = 1
        /\ gist = snap[p]
        /\ gist.date = today[p]
        /\ Cardinality(DOMAIN gist.rows) = 2

\* ------------------------------------------------------------- accounting
\* the sum of new - old over the blocks of key k and metric m that run p has sent
AlertedDelta(p, k, m) ==
    LET bs == {b \in SentBlocks(p) : b.alert = AlertKind(m) /\ b.k = k}
    IN  IF bs = {} THEN 0 ELSE LET b == CHOOSE c \in bs : TRUE IN b.new - b.old

\* run p saves: a baseline run opens the day's account with the values it saves; a
\* same-day run adds what it has alerted, and closes the account of a key it did
\* not fetch and of a metric it fetched with a count below the stored one
RecordAcct(p) ==
    LET kept(k, m) ==
            /\ acct.day = today[p]
            /\ acct.ok[k][m]
            /\ k \in KeysOf(rows[p])
            /\ k \in DOMAIN state[p].rows
            /\ snap[p].rows[k][m] >= state[p].rows[k][m]
    IN  acct' =
            IF state[p].date # today[p]
            THEN [day |-> today[p],
                  ok |-> [k \in Keys |-> [m \in Metrics |-> k \in DOMAIN snap[p].rows]],
                  base |-> [k \in Keys |-> [m \in Metrics |->
                              IF k \in DOMAIN snap[p].rows THEN snap[p].rows[k][m] ELSE 0]],
                  sum |-> [k \in Keys |-> [m \in Metrics |-> 0]]]
            ELSE [day |-> today[p],
                  ok |-> [k \in Keys |-> [m \in Metrics |-> kept(k, m)]],
                  base |-> [k \in Keys |-> [m \in Metrics |->
                              IF kept(k, m) THEN acct.base[k][m] ELSE 0]],
                  sum |-> [k \in Keys |-> [m \in Metrics |->
                              IF kept(k, m) THEN acct.sum[k][m] + AlertedDelta(p, k, m) ELSE 0]]]

\* the scheduled job on reports of at most one row, with every load answered from
\* the stored file, every fetch returning and every save applied, keeping the
\* day's account
NextSum ==
    \/ Tick /\ UNCHANGED hist
    \/ LoadStored(1) /\ UNCHANGED hist
    \/ FetchShort(1) /\ UNCHANGED hist
    \/ NoData(1) /\ UNCHANGED hist
    \/ Baseline(1) /\ UNCHANGED hist
    \/ Compare(1) /\ UNCHANGED hist
    \/ SaveApplied(1) /\ RecordAcct(1) /\ UNCHANGED <<peak, nodata, prev, order>>

SpecSum == Init /\ [][NextSum]_vars

\* C20: over the runs of a day since its baseline run, for a key that every run has
\* fetched with counts that never fell, the alerted deltas of each metric add up to
\* the value the gist holds minus the value the baseline run saved.
C20_ExactlyOnce ==
    \A k \in Keys : \A m \in Metrics :
        (acct.day = gist.date /\ acct.ok[k][m]) =>
            /\ k \in DOMAIN gist.rows
            /\ acct.sum[k][m] = gist.rows[k][m] - acct.base[k][m]

\* C20 witness: since the day's baseline two runs have alerted a rise of the
\* conversions of A, one after the other, and the gist holds the last value
C20_Witness ==
    /\ acct.ok["A"]["conversions"]
    /\ acct.day = gist.date
    /\ pc[1] = "done"
    /\ acct.sum["A"]["conversions"] = 2
    /\ AlertedDelta(1, "A", "conversions") = 1
    /\ gist.rows["A"].conversions = acct.base["A"]["conversions"] + 2
====
